---- MODULE Spec2Model ----
(***************************************************************************)
(* Model of src/monitor5.py: the hybrid extraction / deduplication engine  *)
(* (find_notes, extract_date_from_text) and the seen-state bookkeeping of  *)
(* main (load_seen, save_seen, the per-portal loop, the notification).     *)
(*                                                                         *)
(* Abstractions of data:                                                   *)
(*  - a string is [head, tail, len]: head identifies its first             *)
(*    min(len, 150) characters, tail the characters after the 150th        *)
(*    (0 when there are none), len its length; two strings are equal iff   *)
(*    the records are equal;                                               *)
(*  - a URL is [site, doc]; the page of portal p is [site |-> p, doc |-> 0]*)
(*  - sha256_text(f"{a}||{b}") is the pair <<a, b>> (the hash is taken to  *)
(*    be collision free and "||" not to occur in a title or a URL);        *)
(*  - a parsed page is the sequence of its <a> elements (text, href, the   *)
(*    first date token of the enclosing container's text) in document      *)
(*    order and the sequence of non-overlapping matches of the aggressive  *)
(*    regular expression (matched span, the captured date token);          *)
(*  - a resolved date d/m/y is the number y*10000 + m*100 + d, which       *)
(*    orders as datetime does; None is NoDate.                             *)
(***************************************************************************)
EXTENDS Integers, Sequences, FiniteSets, TLC

VARIABLES
    disk,                 \* seen_hashes.json: [st, data]
    run,                  \* number of the current invocation of main
    pc,                   \* position of main
    portal,               \* next portal of URLS_PORTAIS.items()
    seen,                 \* main: seen
    updated_seen,         \* main: updated_seen
    new_found_by_portal,  \* main: new_found_by_portal
    clock,                \* datetime.now()
    sent,                 \* argument of send_email in this run, or NotSent
    fetched,              \* history: the results of fetch_url in this run
    prevFetched,          \* history: fetched of the previous run
    prevSaved,            \* history: the previous run saved the store
    fn_links,             \* find_notes: soup.find_all("a", string=True)
    fn_matches,           \* find_notes: ocorrencias
    fn_base,              \* find_notes: base_url
    fn_i,                 \* find_notes: links already visited
    fn_j,                 \* find_notes: matches already visited
    dated_notes,          \* find_notes: dated_notes, in insertion order
    final_list,           \* find_notes: final_list after the sort
    fn_out,               \* find_notes: the returned list
    fn_pc                 \* find_notes: "idle", "scan" or "done"

mainVars == <<disk, run, pc, portal, seen, updated_seen, new_found_by_portal,
              clock, sent, fetched, prevFetched, prevSaved>>
fnVars == <<fn_links, fn_matches, fn_base, fn_i, fn_j, dated_notes,
            final_list, fn_out, fn_pc>>
vars == <<disk, run, pc, portal, seen, updated_seen, new_found_by_portal,
          clock, sent, fetched, prevFetched, prevSaved,
          fn_links, fn_matches, fn_base, fn_i, fn_j, dated_notes,
          final_list, fn_out, fn_pc>>

-----------------------------------------------------------------------------
(* Bounds of the model *)

NumPortals == 2
MaxRuns == 2
MaxLinks == 2
MaxMatches == 2

(* Constants of the program *)

MinSpan == 50
MaxSpan == 1000
KeyPrefixLen == 150
SentinelDate == 19000101

Portals == 1 .. NumPortals

URLS_PORTAIS(p) == [site |-> p, doc |-> 0]

-----------------------------------------------------------------------------
(* Strings, URLs, hashes *)

Str(h, t, n) == [head |-> h, tail |-> t, len |-> n]

\* s[:150]
Prefix150(s) ==
    IF s.len <= KeyPrefixLen THEN s
    ELSE [head |-> s.head, tail |-> 0, len |-> KeyPrefixLen]

\* PATTERN.search(text): the heads 1..6 stand for texts holding a keyword
PATTERN(text) == text.head \in 1 .. 6

NoHref == [kind |-> "none", site |-> 0, doc |-> 0]
RelHref(d) == [kind |-> "rel", site |-> 0, doc |-> d]
AbsHref(s, d) == [kind |-> "abs", site |-> s, doc |-> d]

\* urljoin(base_url, a.get("href") or "")
urljoin(base, href) ==
    CASE href.kind = "none" -> base
      [] href.kind = "rel" -> [site |-> base.site, doc |-> href.doc]
      [] OTHER -> [site |-> href.site, doc |-> href.doc]

sha256_text(a, b) == <<a, b>>

-----------------------------------------------------------------------------
(* extract_date_from_text *)

NoDate == 0
NoToken == [d |-> 0, m |-> 0, y |-> 0]
Tok(d, m, y) == [d |-> d, m |-> m, y |-> y]

IsLeap(y) == (y % 4 = 0 /\ y % 100 # 0) \/ y % 400 = 0

DaysIn(m, y) ==
    CASE m = 2 -> IF IsLeap(y) THEN 29 ELSE 28
      [] m \in {4, 6, 9, 11} -> 30
      [] OTHER -> 31

\* datetime.strptime(date_str, "%d/%m/%Y") succeeds
ValidDate(t) ==
    /\ t.y >= 1
    /\ t.m \in 1 .. 12
    /\ t.d >= 1
    /\ t.d <= DaysIn(t.m, t.y)

\* tok is the first dd/mm/yyyy token of the text, NoToken when there is none
extract_date_from_text(tok) ==
    IF tok # NoToken /\ ValidDate(tok)
    THEN tok.y * 10000 + tok.m * 100 + tok.d
    ELSE NoDate

-----------------------------------------------------------------------------
(* find_notes *)

HasKey(notes, k) == \E i \in DOMAIN notes : notes[i].key = k

StructKey(link, base) == sha256_text(link.text, urljoin(base, link.href))

\* one iteration of the loop over the links
StructInsert(notes, link, base) ==
    IF PATTERN(link.text)
    THEN LET full_url == urljoin(base, link.href)
             date_obj == extract_date_from_text(link.tok)
             hash_key == sha256_text(link.text, full_url)
         IN  IF ~HasKey(notes, hash_key)
             THEN Append(notes, [key |-> hash_key, title |-> link.text,
                                 url |-> full_url, date |-> date_obj,
                                 via |-> "structural"])
             ELSE notes
    ELSE notes

AggrKey(match, base) == sha256_text(Prefix150(match.text), base)

LengthOkLoose(n) == MinSpan <= n /\ n < MaxSpan

\* 50 < len(titulo_completo) < 1000
LengthOk(n) == MinSpan < n /\ n < MaxSpan

AggrInsertOverwrite(notes, match, base) ==
    IF LengthOk(match.text.len)
    THEN LET e == [key |-> AggrKey(match, base), title |-> match.text,
                   url |-> base, date |-> extract_date_from_text(match.pub),
                   via |-> "aggressive"]
         IN  IF HasKey(notes, e.key)
             THEN [i \in DOMAIN notes |->
                      IF notes[i].key = e.key THEN e ELSE notes[i]]
             ELSE Append(notes, e)
    ELSE notes

\* one iteration of the loop over the matches of the aggressive expression
AggrInsert(notes, match, base) ==
    IF LengthOk(match.text.len)
    THEN LET date_obj == extract_date_from_text(match.pub)
             hash_key == sha256_text(Prefix150(match.text), base)
         IN  IF ~HasKey(notes, hash_key)
             THEN Append(notes, [key |-> hash_key, title |-> match.text,
                                 url |-> base, date |-> date_obj,
                                 via |-> "aggressive"])
             ELSE notes
    ELSE notes

\* the key of final_list.sort
SortKey(n) == IF n.date # NoDate THEN n.date ELSE SentinelDate

\* e placed after every element whose key is not smaller: a stable descending
\* order, as list.sort(reverse=True) keeps
InsertDesc(sorted, e) ==
    LET k == Cardinality({i \in DOMAIN sorted : SortKey(sorted[i]) >= SortKey(e)})
    IN  SubSeq(sorted, 1, k) \o <<e>> \o SubSeq(sorted, k + 1, Len(sorted))

RECURSIVE SortDesc(_)
SortDesc(s) ==
    IF s = <<>> THEN <<>>
    ELSE InsertDesc(SortDesc(SubSeq(s, 1, Len(s) - 1)), s[Len(s)])

Project(list) == [i \in DOMAIN list |-> [title |-> list[i].title, url |-> list[i].url]]

RECURSIVE StructPass(_, _, _)
StructPass(notes, links, base) ==
    IF links = <<>> THEN notes
    ELSE StructPass(StructInsert(notes, Head(links), base), Tail(links), base)

RECURSIVE AggrPass(_, _, _)
AggrPass(notes, matches, base) ==
    IF matches = <<>> THEN notes
    ELSE AggrPass(AggrInsert(notes, Head(matches), base), Tail(matches), base)

find_notes(html, base_url) ==
    Project(SortDesc(AggrPass(StructPass(<<>>, html.links, base_url),
                              html.matches, base_url)))

-----------------------------------------------------------------------------
(* Inputs: the links and the matches a page may hold *)

Link(text, href, tok) == [text |-> text, href |-> href, tok |-> tok]
Match(text, pub) == [text |-> text, pub |-> pub]

\* "Nota Tecnica 2024.001" -> doc1.pdf, in a row dated 29/09/2024
LinkRow == Link(Str(1, 0, 21), RelHref(1), Tok(29, 9, 2024))
\* the same link again, in a container whose first date token is 31/04/2024
LinkRowAgain == Link(Str(1, 0, 21), RelHref(1), Tok(31, 4, 2024))
\* a link without href whose 150 characters open the span of MatchLong
LinkPrefix == Link(Str(2, 0, 150), NoHref, Tok(15, 3, 1850))
\* a link without href whose text is the whole span of MatchLong, no container
LinkWhole == Link(Str(2, 1, 151), NoHref, Tok(10, 10, 2024))
\* a link without a keyword
LinkOther == Link(Str(9, 0, 8), AbsHref(0, 2), NoToken)
\* a link without a date nearby
LinkUndated == Link(Str(3, 0, 30), RelHref(3), NoToken)
\* a link without href whose text is the whole 51-character span of MatchSentinel
LinkSpan == Link(Str(6, 0, 51), NoHref, Tok(1, 1, 1900))
\* the same document linked with an absolute URL from every portal
LinkShared == Link(Str(1, 0, 21), AbsHref(0, 1), Tok(29, 9, 2024))

MatchLong == Match(Str(2, 1, 151), Tok(10, 10, 2024))
\* a span with the same first 150 characters as MatchLong
MatchLonger == Match(Str(2, 2, 999), Tok(29, 9, 2024))
MatchShort == Match(Str(4, 0, 50), Tok(29, 9, 2024))
MatchHuge == Match(Str(5, 1, 1000), Tok(29, 9, 2024))
MatchSentinel == Match(Str(6, 0, 51), Tok(1, 1, 1900))

LinkUniverse ==
    {LinkRow, LinkRowAgain, LinkPrefix, LinkWhole, LinkOther, LinkUndated, LinkSpan}
MatchUniverse == {MatchLong, MatchLonger, MatchShort, MatchHuge, MatchSentinel}

SeqsUpTo(S, n) == UNION {[1 .. k -> S] : k \in 0 .. n}

-----------------------------------------------------------------------------
(* find_notes, step by step *)

NotSent == [called |-> FALSE]
EmptyMap == [k \in {} |-> k]

MainIdle ==
    /\ disk = [st |-> "absent", data |-> EmptyMap]
    /\ run = 0
    /\ pc = "idle"
    /\ portal = 0
    /\ seen = EmptyMap
    /\ updated_seen = EmptyMap
    /\ new_found_by_portal = EmptyMap
    /\ clock = 0
    /\ sent = NotSent
    /\ fetched = <<>>
    /\ prevFetched = <<>>
    /\ prevSaved = FALSE

InitNotes ==
    /\ MainIdle
    /\ fn_links \in SeqsUpTo(LinkUniverse, MaxLinks)
    /\ fn_matches \in SeqsUpTo(MatchUniverse, MaxMatches)
    /\ fn_base = URLS_PORTAIS(1)
    /\ fn_i = 0
    /\ fn_j = 0
    /\ dated_notes = <<>>
    /\ final_list = <<>>
    /\ fn_out = <<>>
    /\ fn_pc = "scan"

StructStep ==
    /\ fn_pc = "scan"
    /\ fn_i < Len(fn_links)
    /\ dated_notes' = StructInsert(dated_notes, fn_links[fn_i + 1], fn_base)
    /\ fn_i' = fn_i + 1
    /\ UNCHANGED <<fn_links, fn_matches, fn_base, fn_j, final_list, fn_out, fn_pc>>
    /\ UNCHANGED mainVars

AggrStep ==
    /\ fn_pc = "scan"
    /\ fn_i = Len(fn_links)
    /\ fn_j < Len(fn_matches)
    /\ dated_notes' = AggrInsert(dated_notes, fn_matches[fn_j + 1], fn_base)
    /\ fn_j' = fn_j + 1
    /\ UNCHANGED <<fn_links, fn_matches, fn_base, fn_i, final_list, fn_out, fn_pc>>
    /\ UNCHANGED mainVars

SortReturn ==
    /\ fn_pc = "scan"
    /\ fn_i = Len(fn_links)
    /\ fn_j = Len(fn_matches)
    /\ final_list' = SortDesc(dated_notes)
    /\ fn_out' = Project(SortDesc(dated_notes))
    /\ fn_pc' = "done"
    /\ UNCHANGED <<fn_links, fn_matches, fn_base, fn_i, fn_j, dated_notes>>
    /\ UNCHANGED mainVars

NextNotes == StructStep \/ AggrStep \/ SortReturn

SpecNotes == InitNotes /\ [][NextNotes]_vars

-----------------------------------------------------------------------------
(* main: one invocation after the other, as the external scheduler runs it *)

\* what "not html" rejects: None and the empty body
NoneHtml == [ok |-> FALSE, links |-> <<>>, matches |-> <<>>]
Page(links, matches) == [ok |-> TRUE, links |-> links, matches |-> matches]

PageOne == Page(<<LinkShared>>, <<>>)
PageMore == Page(<<LinkShared, LinkWhole>>, <<MatchLong>>)
PageRegex == Page(<<LinkRow, LinkOther>>, <<MatchLonger, MatchShort>>)

\* fetch_url: the text of the page, or None on any exception
fetch_url(url) ==
    IF url.site % 2 = 1
    THEN {NoneHtml, PageOne, PageMore}
    ELSE {NoneHtml, PageOne, PageRegex}

Absent == [st |-> "absent", data |-> EmptyMap]
Corrupt == [st |-> "corrupt", data |-> EmptyMap]

load_seen_forget(d) == EmptyMap

\* load_seen on a file that is absent or holds a JSON object
load_seen(d) == IF d.st = "absent" THEN EmptyMap ELSE d.data

\* save_seen when open and json.dump succeed
save_seen(data) == [st |-> "valid", data |-> data]

\* the file after a save_seen that raised: open failed and left it alone, or
\* json.dump failed after open truncated it
FailedWrite(d) == {d, Corrupt}

AfterSaveFailureSwallowed == "saved"

\* save_seen has no handler and main has none: the exception ends the run
AfterSaveFailure == "save_error"

MainKey(n) == sha256_text(n.title, n.url)

IsNewAlways(h, seenMap) == TRUE

\* h not in seen
IsNew(h, seenMap) == h \notin DOMAIN seenMap

\* the loop over notes; acc is [upd, items, clk]
RECURSIVE CheckNotes(_, _, _, _)
CheckNotes(notes, p, seenMap, acc) ==
    IF notes = <<>> THEN acc
    ELSE LET n == Head(notes)
             h == MainKey(n)
             rec == [title |-> n.title, url |-> n.url, portal |-> p,
                     first_seen |-> acc.clk]
         IN  CheckNotes(Tail(notes), p, seenMap,
                 IF IsNew(h, seenMap)
                 THEN [upd |-> (h :> rec) @@ acc.upd,
                       items |-> Append(acc.items, n),
                       clk |-> acc.clk + 1]
                 ELSE acc)

\* sum(len(items) for items in new_found_by_portal.values())
RECURSIVE SumLen(_, _)
SumLen(m, ps) ==
    IF ps = {} THEN 0
    ELSE LET q == CHOOSE x \in ps : TRUE
         IN  Len(m[q]) + SumLen(m, ps \ {q})

total_new_items(m) == SumLen(m, DOMAIN m)

OldRecord == [title |-> Str(1, 0, 21), url |-> [site |-> 0, doc |-> 1],
              portal |-> 1, first_seen |-> 0]

InitDisks ==
    {Absent, save_seen(EmptyMap), save_seen(MainKey(OldRecord) :> OldRecord)}

FnIdle ==
    /\ fn_links = <<>>
    /\ fn_matches = <<>>
    /\ fn_base = URLS_PORTAIS(1)
    /\ fn_i = 0
    /\ fn_j = 0
    /\ dated_notes = <<>>
    /\ final_list = <<>>
    /\ fn_out = <<>>
    /\ fn_pc = "idle"

Init ==
    /\ FnIdle
    /\ disk \in InitDisks
    /\ run = 1
    /\ pc = "start"
    /\ portal = 0
    /\ seen = EmptyMap
    /\ updated_seen = EmptyMap
    /\ new_found_by_portal = EmptyMap
    /\ clock = 1
    /\ sent = NotSent
    /\ fetched = <<>>
    /\ prevFetched = <<>>
    /\ prevSaved = FALSE

\* seen = load_seen(...); new_found_by_portal = {}; updated_seen = seen.copy()
LoadSeen ==
    /\ pc = "start"
    /\ disk.st # "corrupt"
    /\ seen' = load_seen(disk)
    /\ updated_seen' = load_seen(disk)
    /\ new_found_by_portal' = EmptyMap
    /\ portal' = 1
    /\ pc' = "loop"
    /\ UNCHANGED <<disk, run, clock, sent, fetched, prevFetched, prevSaved>>
    /\ UNCHANGED fnVars

\* json.load raises on a file a failed write left behind
LoadCrash ==
    /\ pc = "start"
    /\ disk.st = "corrupt"
    /\ pc' = "load_error"
    /\ UNCHANGED <<disk, run, portal, seen, updated_seen, new_found_by_portal,
                   clock, sent, fetched, prevFetched, prevSaved>>
    /\ UNCHANGED fnVars

FetchFailBreak ==
    /\ pc = "loop"
    /\ portal <= NumPortals
    /\ NoneHtml \in fetch_url(URLS_PORTAIS(portal))
    /\ fetched' = Append(fetched, [portal |-> portal, html |-> NoneHtml])
    /\ portal' = NumPortals + 1
    /\ UNCHANGED <<disk, run, pc, seen, updated_seen, new_found_by_portal,
                   clock, sent, prevFetched, prevSaved>>
    /\ UNCHANGED fnVars

\* html = fetch_url(url); if not html: continue
FetchFail ==
    /\ pc = "loop"
    /\ portal <= NumPortals
    /\ NoneHtml \in fetch_url(URLS_PORTAIS(portal))
    /\ fetched' = Append(fetched, [portal |-> portal, html |-> NoneHtml])
    /\ portal' = portal + 1
    /\ UNCHANGED <<disk, run, pc, seen, updated_seen, new_found_by_portal,
                   clock, sent, prevFetched, prevSaved>>
    /\ UNCHANGED fnVars

\* one iteration of the loop over the portals with a page fetched
ProcessPortal ==
    /\ pc = "loop"
    /\ portal <= NumPortals
    /\ \E html \in fetch_url(URLS_PORTAIS(portal)) :
          /\ html.ok
          /\ LET notes == find_notes(html, URLS_PORTAIS(portal))
                 r == CheckNotes(notes, portal, seen,
                                 [upd |-> updated_seen, items |-> <<>>,
                                  clk |-> clock])
             IN  /\ updated_seen' = r.upd
                 /\ clock' = r.clk
                 /\ new_found_by_portal' =
                        IF r.items # <<>>
                        THEN (portal :> r.items) @@ new_found_by_portal
                        ELSE new_found_by_portal
          /\ fetched' = Append(fetched, [portal |-> portal, html |-> html])
    /\ portal' = portal + 1
    /\ UNCHANGED <<disk, run, pc, seen, sent, prevFetched, prevSaved>>
    /\ UNCHANGED fnVars

SaveOk ==
    /\ pc = "loop"
    /\ portal > NumPortals
    /\ disk' = save_seen(updated_seen)
    /\ pc' = "saved"
    /\ UNCHANGED <<run, portal, seen, updated_seen, new_found_by_portal,
                   clock, sent, fetched, prevFetched, prevSaved>>
    /\ UNCHANGED fnVars

SaveFail ==
    /\ pc = "loop"
    /\ portal > NumPortals
    /\ disk' \in FailedWrite(disk)
    /\ pc' = AfterSaveFailure
    /\ UNCHANGED <<run, portal, seen, updated_seen, new_found_by_portal,
                   clock, sent, fetched, prevFetched, prevSaved>>
    /\ UNCHANGED fnVars

\* if total_new_items > 0: send_email(new_found_by_portal)
SendEmail ==
    /\ pc = "saved"
    /\ total_new_items(new_found_by_portal) > 0
    /\ sent' = [called |-> TRUE, items |-> new_found_by_portal]
    /\ pc' = "done"
    /\ UNCHANGED <<disk, run, portal, seen, updated_seen, new_found_by_portal,
                   clock, fetched, prevFetched, prevSaved>>
    /\ UNCHANGED fnVars

NoNews ==
    /\ pc = "saved"
    /\ total_new_items(new_found_by_portal) = 0
    /\ pc' = "done"
    /\ UNCHANGED <<disk, run, portal, seen, updated_seen, new_found_by_portal,
                   clock, sent, fetched, prevFetched, prevSaved>>
    /\ UNCHANGED fnVars

\* the scheduler invokes the program again after it has ended
NextRun ==
    /\ pc \in {"done", "save_error", "load_error"}
    /\ run < MaxRuns
    /\ run' = run + 1
    /\ pc' = "start"
    /\ portal' = 0
    /\ seen' = EmptyMap
    /\ updated_seen' = EmptyMap
    /\ new_found_by_portal' = EmptyMap
    /\ sent' = NotSent
    /\ prevFetched' = fetched
    /\ prevSaved' = (pc = "done")
    /\ fetched' = <<>>
    /\ UNCHANGED <<disk, clock>>
    /\ UNCHANGED fnVars

Next ==
    \/ LoadSeen
    \/ LoadCrash
    \/ FetchFail
    \/ ProcessPortal
    \/ SaveOk
    \/ SaveFail
    \/ SendEmail
    \/ NoNews
    \/ NextRun

Spec == Init /\ [][Next]_vars

-----------------------------------------------------------------------------
(* Properties of find_notes, under SpecNotes *)

\* the links and matches visited so far that yield a candidate
StructCandidates == {i \in 1 .. fn_i : PATTERN(fn_links[i].text)}
AggrCandidates ==
    {j \in 1 .. fn_j : fn_matches[j].text.len > MinSpan
                       /\ fn_matches[j].text.len < MaxSpan}

EntriesWithKey(k) == {n \in DOMAIN dated_notes : dated_notes[n].key = k}

Collide(i, j) == StructKey(fn_links[i], fn_base) = AggrKey(fn_matches[j], fn_base)

\* C2: when a Structural and an Aggressive candidate of the page have the
\* same Identity Key, exactly one candidate with that key is in the merged
\* result and it is the Structural one (title the link text, url the resolved
\* href); an Aggressive candidate is in the map only under a key no other
\* entry has.
C2_StructuralWins ==
    /\ \A i \in StructCandidates : \A j \in AggrCandidates :
          Collide(i, j) =>
             LET k == StructKey(fn_links[i], fn_base)
             IN  /\ Cardinality(EntriesWithKey(k)) = 1
                 /\ \A n \in EntriesWithKey(k) :
                       /\ dated_notes[n].via = "structural"
                       /\ dated_notes[n].title = fn_links[i].text
                       /\ dated_notes[n].url = urljoin(fn_base, fn_links[i].href)
    /\ \A n \in DOMAIN dated_notes :
          dated_notes[n].via = "aggressive" =>
             /\ EntriesWithKey(dated_notes[n].key) = {n}
             /\ \A i \in StructCandidates :
                   StructKey(fn_links[i], fn_base) # dated_notes[n].key
    /\ fn_pc = "done" =>
          \A i \in StructCandidates : \A j \in AggrCandidates :
             Collide(i, j) =>
                Cardinality({n \in DOMAIN final_list :
                    final_list[n].key = StructKey(fn_links[i], fn_base)
                    /\ final_list[n].via = "structural"
                    /\ fn_out[n].title = fn_links[i].text
                    /\ fn_out[n].url = urljoin(fn_base, fn_links[i].href)}) = 1

C2_Witness ==
    /\ fn_pc = "done"
    /\ \E i \in StructCandidates : \E j \in AggrCandidates :
          /\ Collide(i, j)
          /\ fn_matches[j].text # fn_links[i].text

PosInMap(e) == CHOOSE n \in DOMAIN dated_notes : dated_notes[n] = e

\* C3: the returned sequence is non-increasing by resolved date, every
\* candidate without a date comes after every candidate with one, and
\* candidates with equal dates (the undated ones included) keep their order
\* of insertion into the merge map.
C3_RankedByDate ==
    fn_pc = "done" =>
       \A a \in DOMAIN final_list : \A b \in DOMAIN final_list :
          a < b =>
             /\ (final_list[a].date # NoDate /\ final_list[b].date # NoDate)
                   => final_list[a].date >= final_list[b].date
             /\ ~(final_list[a].date = NoDate /\ final_list[b].date # NoDate)
             /\ final_list[a].date = final_list[b].date
                   => PosInMap(final_list[a]) < PosInMap(final_list[b])

\* C7: the key main computes for a candidate is the key under which
\* find_notes holds it in the merge map.
C7_SameKey ==
    \A n \in DOMAIN dated_notes : MainKey(dated_notes[n]) = dated_notes[n].key

FirstWithKey(j) ==
    \A j2 \in AggrCandidates :
       j2 < j => AggrKey(fn_matches[j2], fn_base) # AggrKey(fn_matches[j], fn_base)

\* C8: no Aggressive candidate with a span of 50 characters or fewer, or of
\* 1000 or more, is in the output; every match of 51..999 characters whose
\* key is not yet in the merge map is.
C8_SpanFilter ==
    /\ \A n \in DOMAIN dated_notes :
          dated_notes[n].via = "aggressive" =>
             /\ dated_notes[n].title.len > MinSpan
             /\ dated_notes[n].title.len < MaxSpan
    /\ \A j \in AggrCandidates :
          ((\A i \in StructCandidates : ~Collide(i, j)) /\ FirstWithKey(j)) =>
             \E n \in DOMAIN dated_notes :
                /\ dated_notes[n].via = "aggressive"
                /\ dated_notes[n].title = fn_matches[j].text
                /\ dated_notes[n].url = fn_base
    /\ fn_pc = "done" =>
          /\ Len(fn_out) = Len(dated_notes)
          /\ \A n \in DOMAIN dated_notes :
                \E m \in DOMAIN final_list :
                   /\ final_list[m] = dated_notes[n]
                   /\ fn_out[m] = [title |-> dated_notes[n].title,
                                   url |-> dated_notes[n].url]

C8_Witness ==
    /\ fn_pc = "done"
    /\ \E j \in DOMAIN fn_matches : fn_matches[j].text.len >= MaxSpan
    /\ \E j \in DOMAIN fn_matches : fn_matches[j].text.len = MinSpan + 1
    /\ \E n \in DOMAIN final_list : final_list[n].via = "aggressive"

-----------------------------------------------------------------------------
(* Properties of main, under Spec *)

ItemKeys(m) == UNION {{MainKey(m[p][i]) : i \in DOMAIN m[p]} : p \in DOMAIN m}

Running == pc \in {"loop", "saved", "done", "save_error"}

SameAsBefore ==
    /\ Len(fetched) <= Len(prevFetched)
    /\ \A i \in DOMAIN fetched : fetched[i] = prevFetched[i]

\* exactly one portal returned a page, and find_notes found one notice in it
OnePageOneNotice ==
    /\ Cardinality({i \in DOMAIN fetched : fetched[i].html.ok}) = 1
    /\ \A i \in DOMAIN fetched :
          fetched[i].html.ok =>
             Len(find_notes(fetched[i].html, URLS_PORTAIS(fetched[i].portal))) = 1

\* C1: after a run that saved the store, a run in which every portal returns
\* the same page as before reports no new item for any portal and adds no
\* record; a first run from an empty store over one page with one notice
\* reports one new item and saves a store with one entry.
C1_CrossRunNovelty ==
    /\ (Running /\ run >= 2 /\ prevSaved /\ SameAsBefore) =>
          /\ new_found_by_portal = EmptyMap
          /\ updated_seen = seen
          /\ sent = NotSent
    /\ (pc \in {"saved", "done"} /\ seen = EmptyMap /\ OnePageOneNotice) =>
          /\ total_new_items(new_found_by_portal) = 1
          /\ disk.st = "valid"
          /\ Cardinality(DOMAIN disk.data) = 1

C1_Witness ==
    /\ run = 2
    /\ prevSaved
    /\ pc = "done"
    /\ fetched = prevFetched
    /\ \E i \in DOMAIN fetched : fetched[i].html.ok
    /\ clock > 1
    /\ Cardinality(DOMAIN disk.data) = 1

\* C4: no two items of one portal's new-item sequence have the same
\* (title, url) pair.
C4_NoDuplicateItems ==
    \A p \in DOMAIN new_found_by_portal :
       \A a \in DOMAIN new_found_by_portal[p] :
          \A b \in DOMAIN new_found_by_portal[p] :
             a # b => new_found_by_portal[p][a] # new_found_by_portal[p][b]

\* C5: a Seen Record, once created, keeps its fields and its key, in the run
\* that created it and in every later run; what was loaded is saved unchanged.
C5_AppendOnly ==
    [][ /\ (run' = run /\ Running) =>
              \A k \in DOMAIN updated_seen :
                 /\ k \in DOMAIN updated_seen'
                 /\ updated_seen'[k] = updated_seen[k]
        /\ (disk.st = "valid" /\ disk'.st = "valid") =>
              \A k \in DOMAIN disk.data :
                 /\ k \in DOMAIN disk'.data
                 /\ disk'.data[k] = disk.data[k]
      ]_vars

NewKeysOf(i) ==
    {MainKey(n) : n \in {find_notes(fetched[i].html, URLS_PORTAIS(i))[x] :
                           x \in DOMAIN find_notes(fetched[i].html, URLS_PORTAIS(i))}}
       \ DOMAIN seen

\* C6: a portal whose fetch failed contributes no new item and no record;
\* the other portals are processed, in the order of the registry; the store
\* is saved only after every portal was visited and no fetch failure ends
\* the run.
C6_FetchFailureIsolated ==
    /\ Running => Len(fetched) = portal - 1
    /\ \A i \in DOMAIN fetched : fetched[i].portal = i
    /\ \A i \in DOMAIN fetched :
          ~fetched[i].html.ok =>
             /\ i \notin DOMAIN new_found_by_portal
             /\ \A k \in DOMAIN updated_seen \ DOMAIN seen :
                   updated_seen[k].portal # i
    /\ \A i \in DOMAIN fetched :
          fetched[i].html.ok =>
             /\ (i \in DOMAIN new_found_by_portal) = (NewKeysOf(i) # {})
             /\ NewKeysOf(i) \subseteq DOMAIN updated_seen
             /\ i \in DOMAIN new_found_by_portal =>
                   {MainKey(new_found_by_portal[i][x]) :
                       x \in DOMAIN new_found_by_portal[i]} = NewKeysOf(i)
    /\ pc \in {"saved", "done", "save_error"} => Len(fetched) = NumPortals
    /\ pc = "load_error" => fetched = <<>>

C6_Witness ==
    /\ pc = "done"
    /\ ~fetched[1].html.ok
    /\ fetched[NumPortals].html.ok
    /\ NumPortals \in DOMAIN new_found_by_portal
    /\ disk = save_seen(updated_seen)

\* C9: a failed write of the store ends the run with the error and
\* send_email is not called in that run; send_email is called only when the
\* file holds what the run recorded; an absent file loads as the empty
\* mapping and is no error.
C9_SaveFailureSurfaced ==
    /\ pc = "save_error" => sent = NotSent
    /\ sent.called => disk = save_seen(updated_seen)
    /\ (pc = "loop" /\ disk = Absent) => seen = EmptyMap
    /\ pc = "load_error" => disk.st = "corrupt"

C9_Witness ==
    /\ pc = "save_error"
    /\ new_found_by_portal # EmptyMap
    /\ disk = Absent

\* C10: at the end of a run the keys of the items handed to send_email are
\* the keys of the saved store that the loaded store did not have; no item
\* with a key of the loaded store is reported; send_email is called iff that
\* set is not empty, and only after the save.
C10_DeltaReported ==
    /\ pc = "done" =>
          /\ ItemKeys(new_found_by_portal) = DOMAIN disk.data \ DOMAIN seen
          /\ sent.called = (DOMAIN disk.data \ DOMAIN seen # {})
          /\ sent.called => sent.items = new_found_by_portal
    /\ ItemKeys(new_found_by_portal) \cap DOMAIN seen = {}
    /\ sent.called => (pc = "done" /\ disk = save_seen(updated_seen))

C10_Witness ==
    /\ pc = "done"
    /\ sent.called
    /\ seen # EmptyMap
    /\ \E i \in DOMAIN fetched :
          /\ fetched[i].html.ok
          /\ \E x \in DOMAIN find_notes(fetched[i].html, URLS_PORTAIS(i)) :
                MainKey(find_notes(fetched[i].html, URLS_PORTAIS(i))[x]) \in DOMAIN seen

====
